---------------------------- MODULE Spec2Model ----------------------------
(***************************************************************************)
(* HashRng (src/lib.rs): a byte stream H(0, seed) || H(1, seed) || ...     *)
(* drawn block by block from a hash of (counter, seed).                    *)
(*                                                                         *)
(* A generator is the record [counter, seed, buffer, offset] of the struct *)
(* HashRng.  fill_bytes is modelled one loop iteration per step; the other *)
(* public operations (try_fill_bytes, next_u32, next_u64) run the same     *)
(* loop over their own destination buffer.                                 *)
(*                                                                         *)
(* Widths are scaled so that the interesting cases are reachable: the      *)
(* counter is CounterBits wide instead of 64, a byte is ByteBits wide      *)
(* instead of 8, and the digest has OutputSize bytes.                      *)
(***************************************************************************)
EXTENDS Integers, Sequences, FiniteSets, TLC

\* ------------------------------------------------------------------ bounds
\* width of the counter (u64 in the source)
CounterBits == 2
\* width of one byte of digest output (8 in the source)
ByteBits == 2
\* Digest::OutputSize of the hash function D, in bytes
OutputSize == 3
\* seeds are 0..MaxSeed
MaxSeed == 1
\* public calls made on one generator
MaxCalls == 3

RECURSIVE Pow2(_)
Pow2(n) == IF n = 0 THEN 1 ELSE 2 * Pow2(n - 1)

CounterMod == Pow2(CounterBits)
ByteMod == Pow2(ByteBits)
Byte == 0 .. (ByteMod - 1)
Seeds == 0 .. MaxSeed
\* destination lengths a caller passes to fill_bytes: up to a block and one
\* byte more
MaxLen == OutputSize + 1
FillLens == 0 .. MaxLen
\* destination lengths a caller passes to try_fill_bytes
TryFillLens == {0, 1, OutputSize, MaxLen}
\* byte widths of u32 and u64
U32Bytes == 4
U64Bytes == 8

Min(a, b) == IF a <= b THEN a ELSE b

\* --------------------------------------------------------------- variables
VARIABLES
    overflow_checks, \* the build: TRUE when integer overflow panics
    rng,             \* the generator: [counter, seed, buffer, offset]
    pc,              \* "idle" | "loop" | "panicked"
    op,              \* the operation running, or the last one that ran
    dest,            \* the destination buffer of the running call
    dest_offset,     \* bytes already written to dest
    ret,             \* what the last operation returned: [tag, value]
    pre,             \* the generator as it was when the running call began
    pre_hashed,      \* Len(hashed) when the running call began
    out,             \* every byte delivered by this generator, in order
    hashed,          \* counter values hashed by this generator, in order
    log,             \* the calls begun on this generator: <<op, length>>
    other            \* a second instance: [rng, pc, dest, dest_offset, out,
                     \* hashed, calls], calls the lengths of its fill_bytes

vars == <<overflow_checks, rng, pc, op, dest, dest_offset, ret, pre,
          pre_hashed, out, hashed, log, other>>

\* ------------------------------------------------------------ hash, encode
\* the domain-separation tag of udigest::inline_struct!
Label == "dfns.rand_hash"

\* the structure hashed without its counter field
encode_without_counter(counter, seed) ==
    [tag |-> Label, fields |-> << <<"counter", 0>>, <<"seed", seed>> >>]

\* udigest::inline_struct!("dfns.rand_hash" { counter, seed }): a tagged
\* structure of named fields
encode(counter, seed) ==
    [tag |-> Label,
     fields |-> << <<"counter", counter>>, <<"seed", seed>> >>]

\* one absorption step of the stand-in hash
Absorb(h, x) == (h * 13 + x + 11) % 1021

\* a stand-in for udigest::hash::<D>: absorbs the tag and the field values,
\* then squeezes OutputSize bytes
HashState(msg) ==
    Absorb(Absorb(Absorb(1, IF msg.tag = Label THEN 3 ELSE 5),
                  msg.fields[1][2]), msg.fields[2][2])

RECURSIVE Squeeze(_, _)
Squeeze(h, n) ==
    IF n = 0 THEN <<>>
    ELSE <<h % ByteMod>> \o Squeeze(Absorb(h, n), n - 1)

Hash(msg) == Squeeze(HashState(msg), OutputSize)

\* digest::Output<D>::default(): OutputSize zero bytes
DefaultBuffer == [i \in 1 .. OutputSize |-> 0]


\* ------------------------------------------------------------- the generator
\* self.counter += 1 on the CounterBits-wide counter: the sum when it fits;
\* past the top the build decides, a panic with overflow checks and a wrap
\* to 0 without them
counter_add_one(c) ==
    IF c + 1 < CounterMod
    THEN [panicked |-> FALSE, value |-> c + 1]
    ELSE IF overflow_checks
         THEN [panicked |-> TRUE, value |-> c]
         ELSE [panicked |-> FALSE, value |-> (c + 1) % CounterMod]

\* advance_buffer hashing the counter after the increment instead of before
advance_buffer_hashes_next(r) ==
    LET next == counter_add_one(r.counter)
    IN  IF next.panicked
        THEN [rng |-> r, panicked |-> TRUE, hashed |-> <<>>]
        ELSE [rng |-> [counter |-> next.value,
                       seed |-> r.seed,
                       buffer |-> Hash(encode(next.value, r.seed)),
                       offset |-> 0],
              panicked |-> FALSE,
              hashed |-> <<next.value>>]

\* advance_buffer that does not count up
advance_buffer_keeps_counter(r) ==
    [rng |-> [counter |-> r.counter,
              seed |-> r.seed,
              buffer |-> Hash(encode(r.counter, r.seed)),
              offset |-> 0],
     panicked |-> FALSE,
     hashed |-> <<r.counter>>]

\* advance_buffer that also overwrites the seed
advance_buffer_reseeds(r) ==
    LET counter == r.counter
        next == counter_add_one(r.counter)
    IN  IF next.panicked
        THEN [rng |-> r, panicked |-> TRUE, hashed |-> <<>>]
        ELSE [rng |-> [counter |-> next.value,
                       seed |-> r.seed + 1,
                       buffer |-> Hash(encode(counter, r.seed)),
                       offset |-> 0],
              panicked |-> FALSE,
              hashed |-> <<counter>>]

\* HashRng::advance_buffer: hashes the counter as it was, after counting up.
\* Yields the generator, whether the step panicked, and the counters hashed.
advance_buffer(r) ==
    LET counter == r.counter
        next == counter_add_one(counter)
    IN  IF next.panicked
        THEN [rng |-> r, panicked |-> TRUE, hashed |-> <<>>]
        ELSE [rng |-> [counter |-> next.value,
                       seed |-> r.seed,
                       buffer |-> Hash(encode(counter, r.seed)),
                       offset |-> 0],
              panicked |-> FALSE,
              hashed |-> <<counter>>]

\* from_seed leaving the first block to the first request
from_seed_unprimed(seed) ==
    [rng |-> [counter |-> 0, seed |-> seed, buffer |-> DefaultBuffer,
              offset |-> 0],
     panicked |-> FALSE,
     hashed |-> <<>>]

\* HashRng::from_seed
from_seed(seed) ==
    advance_buffer([counter |-> 0,
                    seed |-> seed,
                    buffer |-> DefaultBuffer,
                    offset |-> 0])

\* the amount copied by one iteration of the loop of fill_bytes
read_bytes_from_buffer(r, d, d_offset) ==
    Min(Len(r.buffer) - r.offset, Len(d) - d_offset)

\* both slices of the copy are within their buffers
InBounds(r, d, d_offset, n) ==
    /\ n >= 0
    /\ r.offset + n <= Len(r.buffer)
    /\ d_offset + n <= Len(d)

\* dest[dest_offset .. dest_offset + n] .copy_from_slice(
\*     buffer[offset .. offset + n])
copy_from_slice(r, d, d_offset, n) ==
    [i \in 1 .. Len(d) |->
        IF d_offset < i /\ i <= d_offset + n
        THEN r.buffer[r.offset + (i - d_offset)]
        ELSE d[i]]

\* an advance left to the next request: the test never holds
buffer_exhausted_lazy(r) == r.offset > Len(r.buffer)

\* the test that ends an iteration of the loop: the buffer is used up
buffer_exhausted(r) == r.offset = Len(r.buffer)

\* One iteration of the loop of fill_bytes, on the machine state
\* m = [rng, dest, dest_offset, panicked, hashed].
loop_body(m) ==
    LET n == read_bytes_from_buffer(m.rng, m.dest, m.dest_offset)
    IN  IF ~InBounds(m.rng, m.dest, m.dest_offset, n)
        THEN [m EXCEPT !.panicked = TRUE]
        ELSE LET d2 == copy_from_slice(m.rng, m.dest, m.dest_offset, n)
                 r2 == [m.rng EXCEPT !.offset = @ + n]
                 adv == advance_buffer(r2)
             IN  IF buffer_exhausted(r2)
                 THEN [rng |-> adv.rng,
                       dest |-> d2,
                       dest_offset |-> m.dest_offset + n,
                       panicked |-> adv.panicked,
                       hashed |-> m.hashed \o adv.hashed]
                 ELSE [rng |-> r2,
                       dest |-> d2,
                       dest_offset |-> m.dest_offset + n,
                       panicked |-> FALSE,
                       hashed |-> m.hashed]

\* a destination of n bytes none of which this call has written yet (-1)
FreshDest(n) == [i \in 1 .. n |-> -1]

\* fill_bytes starting every call at the start of the buffered block
fill_bytes_begin_rewinds(r, n) ==
    [rng |-> [r EXCEPT !.offset = 0], dest |-> [i \in 1 .. n |-> -1],
     dest_offset |-> 0, panicked |-> FALSE, hashed |-> <<>>]

\* fill_bytes starting every call on a block of its own
fill_bytes_begin_advances(r, n) ==
    LET adv == advance_buffer(r)
    IN  [rng |-> adv.rng, dest |-> [i \in 1 .. n |-> -1], dest_offset |-> 0,
         panicked |-> adv.panicked, hashed |-> adv.hashed]

\* the entry of fill_bytes: nothing is written yet, the generator is as the
\* caller left it
fill_bytes_begin(r, n) ==
    [rng |-> r, dest |-> FreshDest(n), dest_offset |-> 0,
     panicked |-> FALSE, hashed |-> <<>>]

\* the condition of the while loop of fill_bytes
loop_condition(d, d_offset) == d_offset < Len(d)

\* the loop of fill_bytes, run to its end
RECURSIVE run_loop(_)
run_loop(m) ==
    IF m.panicked \/ ~loop_condition(m.dest, m.dest_offset)
    THEN m
    ELSE run_loop(loop_body(m))

\* RngCore::fill_bytes on a destination of n bytes, as one call
fill_bytes(r, n) == run_loop(fill_bytes_begin(r, n))

\* the value try_fill_bytes returns after fill_bytes returned
try_fill_bytes_result == "Ok"

\* the big-endian integer of a byte sequence
RECURSIVE from_be_bytes(_)
from_be_bytes(b) ==
    IF b = <<>>
    THEN 0
    ELSE b[Len(b)] + ByteMod * from_be_bytes(SubSeq(b, 1, Len(b) - 1))

\* the little-endian integer of a byte sequence
RECURSIVE from_le_bytes(_)
from_le_bytes(b) ==
    IF b = <<>> THEN 0 ELSE b[1] + ByteMod * from_le_bytes(Tail(b))

\* the byte width of the buffer an operation fills on its own
OwnWidth(o) == IF o = "next_u32" THEN U32Bytes ELSE U64Bytes

\* what an operation returns once its destination is filled
return_value(o, d) ==
    CASE o = "fill_bytes" -> [tag |-> "unit", value |-> 0]
      [] o = "try_fill_bytes" -> [tag |-> try_fill_bytes_result, value |-> 0]
      [] o = "next_u32" -> [tag |-> "u32", value |-> from_le_bytes(d)]
      [] o = "next_u64" -> [tag |-> "u64", value |-> from_le_bytes(d)]

\* ------------------------------------------------------------------ actions
\* an instance as HashRng::from_seed(seed) leaves it, with nothing run on it
Constructed(seed) ==
    LET c == from_seed(seed)
    IN  [rng |-> c.rng,
         pc |-> IF c.panicked THEN "panicked" ELSE "idle",
         dest |-> <<>>,
         dest_offset |-> 0,
         out |-> <<>>,
         hashed |-> c.hashed,
         calls |-> <<>>]

Init ==
    /\ overflow_checks \in BOOLEAN
    /\ \E s \in Seeds :
          /\ rng = from_seed(s).rng
          /\ hashed = from_seed(s).hashed
    /\ pc = "idle"
    /\ op = "from_seed"
    /\ dest = <<>>
    /\ dest_offset = 0
    /\ ret = [tag |-> "Self", value |-> 0]
    /\ pre = rng
    /\ pre_hashed = 0
    /\ out = <<>>
    /\ log = <<>>
    /\ other = Constructed(0)

\* the generator is dropped and another one constructed by from_seed
FromSeed(s) ==
    /\ pc = "idle"
    /\ LET c == from_seed(s)
       IN  /\ rng' = c.rng
           /\ hashed' = c.hashed
           /\ pc' = IF c.panicked THEN "panicked" ELSE "idle"
           /\ pre' = c.rng
    /\ op' = "from_seed"
    /\ dest' = <<>>
    /\ dest_offset' = 0
    /\ ret' = [tag |-> "Self", value |-> 0]
    /\ pre_hashed' = 0
    /\ out' = <<>>
    /\ log' = <<>>
    /\ UNCHANGED <<overflow_checks, other>>

\* fill_bytes is entered by operation o with a destination of n bytes
EnterLoop(o, n) ==
    /\ LET m == fill_bytes_begin(rng, n)
       IN  /\ rng' = m.rng
           /\ dest' = m.dest
           /\ dest_offset' = m.dest_offset
           /\ hashed' = hashed \o m.hashed
           /\ pc' = IF m.panicked THEN "panicked" ELSE "loop"
    /\ op' = o
    /\ pre' = rng
    /\ pre_hashed' = Len(hashed)
    /\ log' = Append(log, <<o, n>>)
    /\ UNCHANGED <<overflow_checks, ret, out, other>>

\* rng.fill_bytes(dest) with a destination of n bytes
CallFillBytes(n) ==
    /\ pc = "idle"
    /\ Len(log) < MaxCalls
    /\ EnterLoop("fill_bytes", n)

\* rng.try_fill_bytes(dest): calls fill_bytes on the same destination
CallTryFillBytes(n) ==
    /\ pc = "idle"
    /\ Len(log) < MaxCalls
    /\ EnterLoop("try_fill_bytes", n)

\* rng.next_u32(): next_u32_via_fill fills a buffer of its own
CallNextU32 ==
    /\ pc = "idle"
    /\ Len(log) < MaxCalls
    /\ EnterLoop("next_u32", OwnWidth("next_u32"))

\* rng.next_u64(): next_u64_via_fill fills a buffer of its own
CallNextU64 ==
    /\ pc = "idle"
    /\ Len(log) < MaxCalls
    /\ EnterLoop("next_u64", OwnWidth("next_u64"))

\* one iteration of the while loop of fill_bytes
LoopIter ==
    /\ pc = "loop"
    /\ loop_condition(dest, dest_offset)
    /\ LET m == loop_body([rng |-> rng, dest |-> dest,
                           dest_offset |-> dest_offset,
                           panicked |-> FALSE, hashed |-> hashed])
       IN  /\ rng' = m.rng
           /\ dest' = m.dest
           /\ dest_offset' = m.dest_offset
           /\ hashed' = m.hashed
           /\ pc' = IF m.panicked THEN "panicked" ELSE "loop"
    /\ UNCHANGED <<overflow_checks, op, ret, pre, pre_hashed, out, log,
                   other>>

\* the loop condition fails: the operation returns
Return ==
    /\ pc = "loop"
    /\ ~loop_condition(dest, dest_offset)
    /\ pc' = "idle"
    /\ ret' = return_value(op, dest)
    /\ out' = out \o dest
    /\ UNCHANGED <<overflow_checks, rng, op, dest, dest_offset, pre,
                   pre_hashed, hashed, log, other>>

Next ==
    \/ \E s \in Seeds : FromSeed(s)
    \/ \E n \in FillLens : CallFillBytes(n)
    \/ \E n \in TryFillLens : CallTryFillBytes(n)
    \/ CallNextU32
    \/ CallNextU64
    \/ LoopIter
    \/ Return

Spec == Init /\ [][Next]_vars

\* ------------------------------------------------------------------ claims
\* every byte this generator has written to a destination, in order
Delivered ==
    IF pc = "idle" THEN out ELSE out \o SubSeq(dest, 1, dest_offset)

\* the length of the stream before the counter repeats
Period == CounterMod * OutputSize

\* byte i (from 0) of the stream H(0, seed) || H(1, seed) || ...
StreamByte(seed, i) ==
    Hash(encode((i \div OutputSize) % CounterMod, seed))[(i % OutputSize) + 1]

\* the calls begun on this generator are fill_bytes calls of these lengths
FillLog(lens) == log = [k \in 1 .. Len(lens) |-> <<"fill_bytes", lens[k]>>]

\* the sum of the lengths of the calls l[k], l[k + 1], ...
RECURSIVE RequestedFrom(_, _)
RequestedFrom(l, k) ==
    IF k > Len(l) THEN 0 ELSE l[k][2] + RequestedFrom(l, k + 1)

\* C1: calls of lengths l1, ..., lk on one generator built by from_seed(seed)
\* deliver, taken together, what a single fill_bytes of length l1 + ... + lk
\* delivers on a generator fresh from from_seed(seed); the chunked calls stop
\* in a panic exactly when the single call does, with the same bytes written.
ChunkingInvariance ==
    pc # "loop" =>
        LET one == fill_bytes(from_seed(rng.seed).rng, RequestedFrom(log, 1))
        IN  /\ one.panicked <=> pc = "panicked"
            /\ pc = "idle" => one.dest = out
            /\ SubSeq(one.dest, 1, one.dest_offset) = Delivered

\* three fill_bytes calls of positive lengths that cross a block edge
ChunkingWitness ==
    /\ pc = "idle"
    /\ FillLog(<<OutputSize - 1, 2, MaxLen>>)
    /\ Len(out) = 2 * OutputSize + 2

\* C2: below the period, byte i of what the generator has delivered is byte
\* (i mod OutputSize) of Hash(encode(i div OutputSize, seed)), and the k-th
\* block computed hashes the counter value k.
StreamIsHashBlocks ==
    /\ \A i \in 1 .. Len(Delivered) :
          i - 1 < Period =>
              Delivered[i] =
                  Hash(encode((i - 1) \div OutputSize, rng.seed))
                      [((i - 1) % OutputSize) + 1]
    /\ \A k \in 1 .. Len(hashed) :
          k - 1 < CounterMod => hashed[k] = k - 1

\* bytes of three blocks delivered over several calls
StreamWitness ==
    /\ pc = "idle"
    /\ Len(log) >= 2
    /\ Len(out) > 2 * OutputSize
    /\ Len(hashed) >= 3

\* C3: fill_bytes on an empty destination leaves counter, offset, buffer and
\* seed as they were and hashes nothing.
ZeroLengthIsNoOp ==
    (op = "fill_bytes" /\ log # <<>> /\ log[Len(log)][2] = 0) =>
        /\ pc # "panicked"
        /\ rng = pre
        /\ Len(hashed) = pre_hashed
        /\ dest = <<>>

\* an empty fill_bytes has returned on a generator in the middle of a block
ZeroLengthWitness ==
    /\ pc = "idle"
    /\ op = "fill_bytes"
    /\ Len(log) >= 2
    /\ log[Len(log)] = <<"fill_bytes", 0>>
    /\ rng.offset > 0
    /\ ret.tag = "unit"

\* C5: on a fresh generator, OutputSize bytes and then one byte more compute
\* block 1, and that byte is the first byte of Hash(encode(1, seed)).
BlockEdgeBoundary ==
    (pc = "idle" /\ FillLog(<<OutputSize, 1>>)) =>
        /\ Len(out) = OutputSize + 1
        /\ out[OutputSize + 1] = Hash(encode(1, rng.seed))[1]
        /\ hashed = <<0, 1>>
        /\ rng.counter = 2
        /\ rng.offset = 1

\* the two requests have returned
BlockEdgeWitness ==
    /\ pc = "idle"
    /\ FillLog(<<OutputSize, 1>>)
    /\ Len(out) = OutputSize + 1

\* the copy of the next iteration stays within both buffers
CopyRangesInBounds ==
    (pc = "loop" /\ loop_condition(dest, dest_offset)) =>
        InBounds(rng, dest, dest_offset,
                 read_bytes_from_buffer(rng, dest, dest_offset))

\* C6: no call of fill_bytes fails, whatever the state and the length: every
\* copy of the loop is within the buffer and within the destination, the call
\* does not panic, and a call that has returned has written every byte of
\* its destination.
NoFillBytesFails ==
    op = "fill_bytes" =>
        /\ CopyRangesInBounds
        /\ pc # "panicked"
        /\ pc = "idle" =>
              /\ Len(dest) = log[Len(log)][2]
              /\ \A i \in 1 .. Len(dest) : dest[i] \in Byte

\* C7: computing a block with the counter at its top value does not fail:
\* the counter wraps to 0 and the blocks after it hash 0, 1, ... again, so
\* the stream repeats after Period bytes.
CounterWraparound ==
    /\ pc # "panicked"
    /\ \A k \in 1 .. Len(hashed) : hashed[k] = (k - 1) % CounterMod
    /\ \A i \in 1 .. Len(Delivered) :
          Delivered[i] = StreamByte(rng.seed, i - 1)

\* what C7 says, in a build without overflow checks
WrapsWithoutOverflowChecks == ~overflow_checks => CounterWraparound

\* a block computed after the counter wrapped, in a build that wraps
WrappedWitness ==
    /\ ~overflow_checks
    /\ pc = "idle"
    /\ Len(hashed) = CounterMod + 2
    /\ rng.counter = 2

\* the value of bytes b[1], b[2], ... read least significant byte first
RECURSIVE LittleEndianValue(_, _)
LittleEndianValue(b, i) ==
    IF i > Len(b) THEN 0
    ELSE b[i] * Pow2(ByteBits * (i - 1)) + LittleEndianValue(b, i + 1)

\* the effect of the running or last call is that of fill_bytes(pre, n):
\* the same generator, the same destination, and a panic in the same cases
SameEffectAsFillBytes(n) ==
    LET f == fill_bytes(pre, n)
    IN  /\ pc = "idle" => (~f.panicked /\ rng = f.rng /\ dest = f.dest)
        /\ pc = "panicked" => (f.panicked /\ rng = f.rng)

\* C8: try_fill_bytes signals success in every state and for every length:
\* the call returns, it returns Ok, and what it does to the destination and
\* to the generator is what fill_bytes does with the same length.
TryFillBytesAlwaysOk ==
    (op = "try_fill_bytes" /\ pc # "loop") =>
        /\ pc = "idle"
        /\ ret.tag = "Ok"
        /\ SameEffectAsFillBytes(log[Len(log)][2])

\* the part of C8 that does not need the call to return: no Err, Ok on
\* return, and the effect (a panic included) of fill_bytes
TryFillBytesOkOnReturn ==
    /\ ret.tag # "Err"
    /\ (op = "try_fill_bytes" /\ pc # "loop") =>
          /\ pc = "idle" => ret.tag = "Ok"
          /\ SameEffectAsFillBytes(log[Len(log)][2])

\* the value of the w bytes of the stream that follow the first t
StreamValue(seed, t, w) ==
    LittleEndianValue([j \in 1 .. w |-> StreamByte(seed, t + j - 1)], 1)

\* C9: in every state next_u32 and next_u64 return the little-endian value
\* of the next 4 and 8 bytes of the stream and leave the generator as
\* fill_bytes of that length does; the seed is untouched.
NextIntViaFill ==
    (op \in {"next_u32", "next_u64"} /\ pc # "loop") =>
        LET w == IF op = "next_u32" THEN U32Bytes ELSE U64Bytes
        IN  /\ pc = "idle"
            /\ SameEffectAsFillBytes(w)
            /\ rng.seed = pre.seed
            /\ Len(dest) = w
            /\ ret.tag = (IF op = "next_u32" THEN "u32" ELSE "u64")
            /\ ret.value = LittleEndianValue(fill_bytes(pre, w).dest, 1)
            /\ ret.value = StreamValue(rng.seed, Len(out) - w, w)

\* the part of C9 that does not need the call to return
NextIntViaFillOnReturn ==
    (op \in {"next_u32", "next_u64"} /\ pc # "loop") =>
        LET w == IF op = "next_u32" THEN U32Bytes ELSE U64Bytes
        IN  /\ SameEffectAsFillBytes(w)
            /\ rng.seed = pre.seed
            /\ pc = "idle" =>
                  /\ Len(dest) = w
                  /\ ret.tag = (IF op = "next_u32" THEN "u32" ELSE "u64")
                  /\ ret.value = LittleEndianValue(fill_bytes(pre, w).dest, 1)
                  /\ ret.value = StreamValue(rng.seed, Len(out) - w, w)

\* C10: when from_seed returns, counter = 1, offset = 0 and the buffer is
\* Hash(encode(0, seed)); construction does not fail.
ConstructionPrimes ==
    op = "from_seed" =>
        /\ pc = "idle"
        /\ rng.counter = 1
        /\ rng.offset = 0
        /\ rng.buffer = Hash(encode(0, rng.seed))
        /\ hashed = <<0>>

\* from_seed has returned a generator for the last seed
ConstructionWitness ==
    /\ op = "from_seed"
    /\ pc = "idle"
    /\ rng.seed = MaxSeed
    /\ ret.tag = "Self"
    /\ rng.buffer # DefaultBuffer

\* the values the counter takes
Counters == 0 .. (CounterMod - 1)

\* the structures hashed by this generator so far, in order
HashedMessages == [k \in 1 .. Len(hashed) |-> encode(hashed[k], rng.seed)]

EagerAdvance ==
    pc # "panicked" =>
        /\ 0 <= rng.offset
        /\ rng.offset < OutputSize
        /\ Len(hashed) = (Len(Delivered) \div OutputSize) + 1
        /\ rng.offset = Len(Delivered) % OutputSize

\* a request that ended exactly at a block edge has returned
EagerAdvanceWitness ==
    /\ pc = "idle"
    /\ FillLog(<<1, OutputSize - 1>>)
    /\ rng.offset = 0
    /\ hashed = <<0, 1>>
    /\ rng.counter = 2

\* the calls that run the loop of fill_bytes on a caller's destination and
\* on the longest destination of the crate's own
LoopNext ==
    \/ \E n \in FillLens : CallFillBytes(n)
    \/ CallNextU64
    \/ LoopIter
    \/ Return

\* the loop of fill_bytes runs on once begun: the caller does nothing else
\* until the call has returned
FairSpec ==
    Init /\ [][LoopNext]_vars /\ WF_vars(LoopIter) /\ WF_vars(Return)

\* every iteration of the loop copies at least one byte and no more than the
\* destination still lacks
LoopProgress ==
    [][(pc = "loop" /\ loop_condition(dest, dest_offset)) =>
          /\ dest_offset' > dest_offset
          /\ dest_offset' <= Len(dest)
          /\ Len(dest') = Len(dest)]_vars

\* C14: fill_bytes terminates from every state and for every length: each
\* iteration with dest_offset < N copies a positive number of bytes, so
\* dest_offset grows until it is N and the call ends.
FillBytesTerminates ==
    /\ LoopProgress
    /\ [](pc = "loop" /\ loop_condition(dest, dest_offset) =>
            read_bytes_from_buffer(rng, dest, dest_offset) > 0)
    /\ (pc = "loop") ~> (pc # "loop")

\* a call that took three iterations has returned
TerminationWitness ==
    /\ pc = "idle"
    /\ FillLog(<<1, MaxLen, MaxLen>>)
    /\ dest_offset = MaxLen
    /\ Len(hashed) = 4

\* C15 as stated: no operation on a generator decreases its counter, each
\* block computed raises it by exactly one, and every counter value is hashed
\* for exactly one block, none skipped.
CounterMonotone ==
    /\ [][op' # "from_seed" =>
            /\ rng'.counter >= rng.counter
            /\ Len(hashed') = Len(hashed) + 1 =>
                  rng'.counter = rng.counter + 1
            /\ Len(hashed') = Len(hashed) => rng'.counter = rng.counter]_vars
    /\ [](\A k \in 1 .. Len(hashed) : hashed[k] = k - 1)

\* C15, amended: the counter counts up modulo 2^CounterBits. A step that
\* computes a block hashes the counter and raises it by one modulo
\* 2^CounterBits, any other step leaves it; it decreases only in the wrap from
\* the top value to 0; the k-th block hashes (k - 1) mod 2^CounterBits, so
\* within one period every value is hashed once and none is skipped.
CounterMonotoneModular ==
    /\ [][op' # "from_seed" =>
            /\ Len(hashed') \in {Len(hashed), Len(hashed) + 1}
            /\ Len(hashed') = Len(hashed) + 1 =>
                  /\ rng'.counter = (rng.counter + 1) % CounterMod
                  /\ hashed' = Append(hashed, rng.counter)
            /\ Len(hashed') = Len(hashed) =>
                  (rng'.counter = rng.counter /\ hashed' = hashed)
            /\ rng'.counter < rng.counter =>
                  /\ rng.counter = CounterMod - 1
                  /\ rng'.counter = 0
                  /\ ~overflow_checks]_vars
    /\ [](\A k \in 1 .. Len(hashed) : hashed[k] = (k - 1) % CounterMod)
    /\ [](rng.counter = Len(hashed) % CounterMod)

\* C16: the seed of a generator is never mutated after construction: every
\* step of fill_bytes, try_fill_bytes, next_u32 and next_u64, the block
\* advances in them included, leaves the seed field as it was, so the seed at
\* any moment is the one the operation started with.
SeedNeverMutated ==
    /\ [][op' # "from_seed" => rng'.seed = rng.seed]_vars
    /\ [](rng.seed = pre.seed)

\* three different operations ran on a generator and advanced its buffer
SeedWitness ==
    /\ pc = "idle"
    /\ Len(log) = 3
    /\ Cardinality({log[i][1] : i \in 1 .. 3}) = 3
    /\ Len(hashed) >= 4
    /\ rng.seed = MaxSeed
    /\ pre.seed = MaxSeed

\* ------------------------------------------------------------ two instances
\* the state of the first instance
first == <<rng, pc, op, dest, dest_offset, ret, pre, pre_hashed, out, hashed,
           log>>

\* the lengths two interleaved instances are asked for: within a block and
\* across a block edge
PairLens == {1, MaxLen}

\* the second instance is dropped and another one constructed by from_seed
OtherFromSeed(s) ==
    /\ other.pc = "idle"
    /\ other' = Constructed(s)
    /\ UNCHANGED <<overflow_checks, first>>

\* other.fill_bytes(dest) with a destination of n bytes
OtherCallFillBytes(n) ==
    /\ other.pc = "idle"
    /\ Len(other.calls) < MaxCalls
    /\ LET m == fill_bytes_begin(other.rng, n)
       IN  other' = [other EXCEPT
                        !.rng = m.rng,
                        !.dest = m.dest,
                        !.dest_offset = m.dest_offset,
                        !.hashed = @ \o m.hashed,
                        !.pc = IF m.panicked THEN "panicked" ELSE "loop",
                        !.calls = Append(@, n)]
    /\ UNCHANGED <<overflow_checks, first>>

\* the loop of fill_bytes with the counter a static shared by the instances
OtherLoopIter_shared_counter ==
    /\ other.pc = "loop"
    /\ loop_condition(other.dest, other.dest_offset)
    /\ LET m == loop_body([rng |-> other.rng, dest |-> other.dest,
                           dest_offset |-> other.dest_offset,
                           panicked |-> FALSE, hashed |-> other.hashed])
       IN  /\ other' = [other EXCEPT
                           !.rng = m.rng,
                           !.dest = m.dest,
                           !.dest_offset = m.dest_offset,
                           !.hashed = m.hashed,
                           !.pc = IF m.panicked THEN "panicked" ELSE "loop"]
           /\ rng' = [rng EXCEPT !.counter = m.rng.counter]
    /\ UNCHANGED <<overflow_checks, pc, op, dest, dest_offset, ret, pre,
                   pre_hashed, out, hashed, log>>

\* one iteration of the while loop of fill_bytes on the second instance
OtherLoopIter ==
    /\ other.pc = "loop"
    /\ loop_condition(other.dest, other.dest_offset)
    /\ LET m == loop_body([rng |-> other.rng, dest |-> other.dest,
                           dest_offset |-> other.dest_offset,
                           panicked |-> FALSE, hashed |-> other.hashed])
       IN  other' = [other EXCEPT
                        !.rng = m.rng,
                        !.dest = m.dest,
                        !.dest_offset = m.dest_offset,
                        !.hashed = m.hashed,
                        !.pc = IF m.panicked THEN "panicked" ELSE "loop"]
    /\ UNCHANGED <<overflow_checks, first>>

\* the loop condition fails on the second instance: its fill_bytes returns
OtherReturn ==
    /\ other.pc = "loop"
    /\ ~loop_condition(other.dest, other.dest_offset)
    /\ other' = [other EXCEPT !.pc = "idle", !.out = @ \o other.dest]
    /\ UNCHANGED <<overflow_checks, first>>

\* two instances, each constructed from any seed and running fill_bytes, the
\* steps of one between any two steps of the other
PairNext ==
    \/ \E s \in Seeds : FromSeed(s)
    \/ \E n \in PairLens : CallFillBytes(n)
    \/ LoopIter
    \/ Return
    \/ \E s \in Seeds : OtherFromSeed(s)
    \/ \E n \in PairLens : OtherCallFillBytes(n)
    \/ OtherLoopIter
    \/ OtherReturn

PairSpec == Init /\ [][PairNext]_vars

\* fill_bytes calls of lengths lens[k], lens[k + 1], ... run one after the
\* other, each to its end, on m = [rng, out, panicked] with nothing between
RECURSIVE run_alone(_, _, _)
run_alone(m, lens, k) ==
    IF k > Len(lens) \/ m.panicked
    THEN m
    ELSE LET c == fill_bytes(m.rng, lens[k])
         IN  run_alone([rng |-> c.rng,
                        out |-> m.out \o SubSeq(c.dest, 1, c.dest_offset),
                        panicked |-> c.panicked],
                       lens, k + 1)

\* what an instance from this seed is and has delivered after these calls,
\* run alone
Alone(seed, lens) ==
    run_alone([rng |-> from_seed(seed).rng, out |-> <<>>,
               panicked |-> from_seed(seed).panicked], lens, 1)

\* every byte the second instance has written to a destination, in order
OtherDelivered ==
    IF other.pc = "idle"
    THEN other.out
    ELSE other.out \o SubSeq(other.dest, 1, other.dest_offset)

\* C17: with the operations of two instances interleaved step by step, a step
\* of one instance leaves the other (counter, offset, buffer, seed and its
\* call in progress) unchanged, and each instance, whenever it is not inside
\* a call, is in the state and has delivered the bytes that its own calls
\* give when run alone from from_seed of its own seed; at every moment what
\* it has delivered is a prefix of the stream of its own seed.
InstancesIndependent ==
    /\ [][first' = first \/ other' = other]_vars
    /\ [](pc # "loop" =>
            LET a == Alone(rng.seed, [k \in 1 .. Len(log) |-> log[k][2]])
            IN  /\ a.rng = rng
                /\ a.out = Delivered
                /\ a.panicked <=> pc = "panicked")
    /\ [](other.pc # "loop" =>
            LET a == Alone(other.rng.seed, other.calls)
            IN  /\ a.rng = other.rng
                /\ a.out = OtherDelivered
                /\ a.panicked <=> other.pc = "panicked")
    /\ [](\A i \in 1 .. Len(Delivered) :
            Delivered[i] = StreamByte(rng.seed, i - 1))
    /\ [](\A i \in 1 .. Len(OtherDelivered) :
            OtherDelivered[i] = StreamByte(other.rng.seed, i - 1))

\* two instances from the same seed, one call finished on the first while a
\* call of the second is in its loop, both past the first block
InstancesWitness ==
    /\ pc = "idle"
    /\ other.pc = "loop"
    /\ rng.seed = other.rng.seed
    /\ log = <<<<"fill_bytes", 1>>, <<"fill_bytes", MaxLen>>>>
    /\ other.calls = <<MaxLen, 1, MaxLen>>
    /\ other.dest_offset = 1
    /\ other.rng.counter = rng.counter + 1

\* ------------------------------------------------------------------ claims
\* C18: after any sequence of operations that have returned, with T bytes
\* delivered since construction, and fewer than 2^CounterBits blocks
\* computed: T = (counter - 1) * OutputSize + offset and T div OutputSize + 1
\* blocks have been hashed; and the call that returned last, of length N
\* from offset o, computed (o + N) div OutputSize blocks.
ByteAccounting ==
    pc = "idle" =>
        /\ Len(hashed) < CounterMod =>
              /\ Len(out) = (rng.counter - 1) * OutputSize + rng.offset
              /\ Len(hashed) = (Len(out) \div OutputSize) + 1
        /\ log # <<>> =>
              Len(hashed) - pre_hashed =
                  (pre.offset + log[Len(log)][2]) \div OutputSize

\* a fill_bytes from the last byte of a block that computes two blocks
ByteAccountingWitness ==
    /\ pc = "idle"
    /\ FillLog(<<OutputSize - 1, MaxLen>>)
    /\ pre.offset = OutputSize - 1
    /\ Len(hashed) - pre_hashed = 2
    /\ Len(hashed) < CounterMod
    /\ Len(out) = 2 * OutputSize
    /\ rng.offset = 0

\* 2^32 at the width of the model's bytes: one more than the largest value
\* of the U32Bytes bytes of next_u32
U32Mod == Pow2(ByteBits * U32Bytes)

\* C19: when next_u64 is called in a state s, two next_u32 calls one after
\* the other from s return lo and hi with next_u64's value = lo + U32Mod * hi
\* and leave the generator as next_u64 does; next_u64 stops in a panic
\* exactly when one of the two next_u32 calls does, with the generator left
\* the same.
NextU64IsTwoNextU32 ==
    (op = "next_u64" /\ pc # "loop") =>
        LET first_call == fill_bytes(pre, OwnWidth("next_u32"))
            second_call == fill_bytes(first_call.rng, OwnWidth("next_u32"))
            lo == return_value("next_u32", first_call.dest)
            hi == return_value("next_u32", second_call.dest)
        IN  IF pc = "idle"
            THEN /\ ~first_call.panicked
                 /\ ~second_call.panicked
                 /\ lo.tag = "u32"
                 /\ hi.tag = "u32"
                 /\ ret.tag = "u64"
                 /\ ret.value = lo.value + U32Mod * hi.value
                 /\ rng = second_call.rng
            ELSE /\ first_call.panicked \/ second_call.panicked
                 /\ rng = IF first_call.panicked
                          THEN first_call.rng
                          ELSE second_call.rng

\* next_u64 returned from the middle of a block with both halves nonzero
NextU64Witness ==
    /\ pc = "idle"
    /\ op = "next_u64"
    /\ pre.offset > 0
    /\ ret.value >= U32Mod
    /\ ret.value % U32Mod # 0
    /\ ret.value % U32Mod # ret.value \div U32Mod

=============================================================================
